---- MODULE Spec2Model ----
(***************************************************************************)
(* Model of the profile dashboard's client-side pipeline:                  *)
(*   - DataProcessor: running totals, group-by-subject sums, top-N, audit  *)
(*     ratio (src/unnamed/part_009, src/unnamed/part_001);                 *)
(*   - the four chart renderers XPTimeline, AuditRatio, ProjectStats and   *)
(*     XPByProject with the SVGBuilder helpers they call                   *)
(*     (src/js/graphs/*.js, src/unnamed/part_003, src/unnamed/part_009);   *)
(*   - Auth's token expiry monitor and login (src/js/auth/auth.js);        *)
(*   - the profile page's loaders (src/unnamed/part_001) and the GraphQL   *)
(*     client (src/js/api/graphql.js).                                     *)
(*                                                                         *)
(* JavaScript values are modelled by what the operators do on them: a      *)
(* number is a normalised fraction, NaN, +/-Infinity or undefined, and     *)
(* arithmetic follows ECMAScript (x/0, 0/0, undefined + 1, NaN || 0).      *)
(***************************************************************************)
EXTENDS Integers, Sequences, FiniteSets, TLC

VARIABLES
    args,       \* DataProcessor: the arguments of the call under study
    result,     \* DataProcessor: the operation last applied and its return value
    chart,      \* renderer: which chart object this instance is
    container,  \* renderer: the children of the chart's container element
    lastCall,   \* renderer: the data and the outcome of the last render call
    tooltip,    \* renderer: the chart's tooltip element in document.body
    session,    \* Auth: the open page, the stored cookies and the expiry timer
    profile,    \* profile page: the selected event, the loads in flight, what is shown
    request     \* GraphQL: a queryWithRetry call, its attempts and its outcome

aggVars   == <<args, result>>
chartVars == <<chart, container, lastCall, tooltip>>
pageVars  == <<session, profile, request>>
vars      == <<args, result, chart, container, lastCall, tooltip, session, profile, request>>

(***************************************************************************)
(* Bounds of the model.                                                    *)
(***************************************************************************)
MaxLen   == 2      \* longest transaction list given to DataProcessor
MaxCount == 4      \* largest audit / pass-fail count

Times   == {1, 2}                 \* createdAt instants (two, so ties occur)
Amounts == {-1, 0, 2}             \* amounts that are present
Labels  == {"A", "B"}             \* subject names that are present
Limits  == {-2, -1, 0, 1, 2, 10}  \* the limit argument of getTopProjects

(***************************************************************************)
(* JavaScript numbers.                                                     *)
(***************************************************************************)
Abs(n)  == IF n < 0 THEN -n ELSE n
Sign(n) == IF n < 0 THEN -1 ELSE IF n > 0 THEN 1 ELSE 0

RECURSIVE GCD(_, _)
GCD(a, b) == IF b = 0 THEN a ELSE GCD(b, a % b)

\* the finite number n/d, d # 0, in lowest terms with a positive denominator
Frac(n, d) ==
    LET g == GCD(Abs(n), Abs(d))
    IN  [k |-> "num", n |-> (Sign(d) * n) \div g, d |-> Abs(d) \div g]

Num(n)      == [k |-> "num", n |-> n, d |-> 1]
NaN         == [k |-> "nan", n |-> 0, d |-> 1]
Undefined   == [k |-> "undefined", n |-> 0, d |-> 1]
Infinity(s) == [k |-> "inf", n |-> s, d |-> 1]

IsFinite(v) == v.k = "num"

\* ToNumber(undefined) is NaN
ToNumber(v) == IF v.k = "undefined" THEN NaN ELSE v

JsNeg(v) == IF v.k \in {"num", "inf"} THEN [v EXCEPT !.n = -v.n] ELSE v

JsAdd(a, b) ==
    LET x == ToNumber(a)
        y == ToNumber(b)
    IN  IF x.k = "nan" \/ y.k = "nan" THEN NaN
        ELSE IF x.k = "inf" /\ y.k = "inf" THEN (IF x.n = y.n THEN x ELSE NaN)
        ELSE IF x.k = "inf" THEN x
        ELSE IF y.k = "inf" THEN y
        ELSE Frac(x.n * y.d + y.n * x.d, x.d * y.d)

JsSub(a, b) == JsAdd(a, JsNeg(ToNumber(b)))

JsMul(a, b) ==
    LET x == ToNumber(a)
        y == ToNumber(b)
    IN  IF x.k = "nan" \/ y.k = "nan" THEN NaN
        ELSE IF x.k = "inf" \/ y.k = "inf"
             THEN (IF x.n = 0 \/ y.n = 0 THEN NaN ELSE Infinity(Sign(x.n) * Sign(y.n)))
        ELSE Frac(x.n * y.n, x.d * y.d)

\* x / 0 is +/-Infinity, 0 / 0 is NaN: JavaScript division never throws
JsDiv(a, b) ==
    LET x == ToNumber(a)
        y == ToNumber(b)
    IN  IF x.k = "nan" \/ y.k = "nan" THEN NaN
        ELSE IF x.k = "inf" /\ y.k = "inf" THEN NaN
        ELSE IF x.k = "inf" THEN Infinity(IF y.n < 0 THEN -x.n ELSE x.n)
        ELSE IF y.k = "inf" THEN Num(0)
        ELSE IF y.n = 0 THEN (IF x.n = 0 THEN NaN ELSE Infinity(Sign(x.n)))
        ELSE Frac(x.n * y.d, x.d * y.n)

\* a > b; every comparison with NaN is false
JsGt(a, b) ==
    LET x == ToNumber(a)
        y == ToNumber(b)
    IN  /\ x.k # "nan"
        /\ y.k # "nan"
        /\ IF x.k = "inf" THEN x.n = 1 /\ ~(y.k = "inf" /\ y.n = 1)
           ELSE IF y.k = "inf" THEN y.n = -1
           ELSE x.n * y.d > y.n * x.d

JsGe(a, b) == JsGt(a, b) \/ (ToNumber(a).k # "nan" /\ ToNumber(a) = ToNumber(b))

\* a || b: undefined, NaN and 0 are falsy
Truthy(v) == v.k = "inf" \/ (v.k = "num" /\ v.n # 0)
JsOr(a, b) == IF Truthy(a) THEN a ELSE b

\* sign of a comparator's return value as Array.prototype.sort reads it: NaN is +0
CmpSign(v) == IF v.k \in {"num", "inf"} THEN Sign(v.n) ELSE 0

\* parseFloat(v.toFixed(digits)) with scale = 10^digits: the nearest multiple
\* of 1/scale, the one of larger magnitude of two equally near ones
ParseFixed(v, scale) ==
    IF v.k # "num" THEN ToNumber(v)
    ELSE Frac(Sign(v.n) * ((2 * scale * Abs(v.n) + v.d) \div (2 * v.d)), scale)

\* Number.prototype.toFixed(2): the magnitude rounded to the nearest hundredth,
\* the larger one on a tie.  The quotient of two counts up to MaxCount is
\* either exactly representable or far from a tie, so the rounding of the
\* double equals the rounding of the fraction.
ToFixed2(v) ==
    IF v.k = "nan" THEN "NaN"
    ELSE IF v.k = "inf" THEN (IF v.n < 0 THEN "-Infinity" ELSE "Infinity")
    ELSE LET m == (200 * Abs(v.n) + v.d) \div (2 * v.d)
         IN  (IF v.n < 0 THEN "-" ELSE "")
             \o ToString(m \div 100) \o "."
             \o ToString((m \div 10) % 10) \o ToString(m % 10)

(***************************************************************************)
(* Transactions.  A transaction is [createdAt, amount, name]: createdAt is *)
(* the instant new Date(createdAt) yields, amount a JavaScript value       *)
(* (Undefined when the field is absent) and name the value of object?.name *)
(* with "" standing for a falsy one (object or name absent, null, empty).  *)
(* The path field is copied through unchanged and is left out.  A list     *)
(* argument is [present, list]: present is FALSE for null / undefined.     *)
(***************************************************************************)
AmountValues == {Num(a) : a \in Amounts} \cup {Undefined}
NameValues   == Labels \cup {""}
Transaction  == [createdAt : Times, amount : AmountValues, name : NameValues]

SeqsUpTo(S, n) == UNION {[1..m -> S] : m \in 0..n}

NoList     == [present |-> FALSE, list |-> <<>>]
ListOf(l)  == [present |-> TRUE, list |-> l]

\* transaction.object?.name || 'Unknown'
ObjectName(t) == IF t.name = "" THEN "Unknown" ELSE t.name

SetMin(S) == CHOOSE x \in S : \A y \in S : x <= y

\* s with x put in front of position p
InsertAt(s, p, x) == SubSeq(s, 1, p - 1) \o <<x>> \o SubSeq(s, p, Len(s))

\* mutant of InsertByDate: the comparator's operands swapped (b - a)
InsertByDate_Descending(sorted, t) ==
    LET later == {i \in 1..Len(sorted) : t.createdAt - sorted[i].createdAt > 0}
    IN  InsertAt(sorted, IF later = {} THEN Len(sorted) + 1 ELSE SetMin(later), t)

\* [...transactions].sort((a, b) => new Date(a.createdAt) - new Date(b.createdAt)):
\* the sort is stable, so an element goes behind every element that does not
\* compare greater than it.
InsertByDate(sorted, t) ==
    LET later == {i \in 1..Len(sorted) : sorted[i].createdAt - t.createdAt > 0}
    IN  InsertAt(sorted, IF later = {} THEN Len(sorted) + 1 ELSE SetMin(later), t)

RECURSIVE SortByDate(_)
SortByDate(list) ==
    IF list = <<>> THEN <<>>
    ELSE InsertByDate(SortByDate(SubSeq(list, 1, Len(list) - 1)), list[Len(list)])

\* let cumulative = 0; ... cumulative += transaction.amount, after i elements
RECURSIVE Cumulative(_, _)
Cumulative(sorted, i) ==
    IF i = 0 THEN Num(0) ELSE JsAdd(Cumulative(sorted, i - 1), sorted[i].amount)

processXPTimeline(transactions) ==
    IF ~transactions.present \/ Len(transactions.list) = 0 THEN <<>>
    ELSE LET sorted == SortByDate(transactions.list)
         IN  [i \in 1..Len(sorted) |->
                [date       |-> sorted[i].createdAt,
                 amount     |-> sorted[i].amount,
                 cumulative |-> Cumulative(sorted, i),
                 objectName |-> ObjectName(sorted[i])]]

\* mutant of NextProjectXP: the amount replaces the total instead of adding to it
NextProjectXP_Overwrite(currentXP, amount) == ToNumber(amount)

\* projectMap.set(projectName, currentXP + transaction.amount): the new total
NextProjectXP(currentXP, amount) == JsAdd(currentXP, amount)

\* the entries of projectMap, in insertion order, after the first i transactions
RECURSIVE ProjectMap(_, _)
ProjectMap(list, i) ==
    IF i = 0 THEN <<>>
    ELSE LET m           == ProjectMap(list, i - 1)
             projectName == ObjectName(list[i])
             at          == {j \in 1..Len(m) : m[j].name = projectName}
             currentXP   == JsOr(IF at = {} THEN Undefined ELSE m[SetMin(at)].xp, Num(0))
             xp          == NextProjectXP(currentXP, list[i].amount)
         IN  IF at = {} THEN Append(m, [name |-> projectName, xp |-> xp])
             ELSE [m EXCEPT ![SetMin(at)].xp = xp]

\* (a, b) => b.xp - a.xp
CompareXP(a, b) == CmpSign(JsSub(b.xp, a.xp))

\* mutant of InsertByXP: an entry goes before the entries it compares equal to
InsertByXP_BeforeEquals(sorted, e) ==
    LET after == {i \in 1..Len(sorted) : CompareXP(sorted[i], e) >= 0}
    IN  InsertAt(sorted, IF after = {} THEN Len(sorted) + 1 ELSE SetMin(after), e)

InsertByXP(sorted, e) ==
    LET after == {i \in 1..Len(sorted) : CompareXP(sorted[i], e) > 0}
    IN  InsertAt(sorted, IF after = {} THEN Len(sorted) + 1 ELSE SetMin(after), e)

RECURSIVE SortByXP(_)
SortByXP(entries) ==
    IF entries = <<>> THEN <<>>
    ELSE InsertByXP(SortByXP(SubSeq(entries, 1, Len(entries) - 1)), entries[Len(entries)])

\* Array.prototype.sort fixes the order only for a consistent comparator (one
\* whose "equal" and "less" are transitive); a NaN total compares equal to
\* everything and breaks that.
ConsistentXP(entries) ==
    \A i, j, l \in 1..Len(entries) :
        LET ij == CompareXP(entries[i], entries[j])
            jl == CompareXP(entries[j], entries[l])
            il == CompareXP(entries[i], entries[l])
        IN  /\ (ij = 0 /\ jl = 0) => il = 0
            /\ (ij < 0 /\ jl < 0) => il < 0
            /\ (ij > 0 /\ jl > 0) => il > 0
            /\ (ij = 0 /\ jl < 0) => il < 0
            /\ (ij < 0 /\ jl = 0) => il < 0

ArrangementsOf(s) ==
    {[i \in 1..Len(s) |-> s[p[i]]] :
        p \in {q \in [1..Len(s) -> 1..Len(s)] : \A i, j \in 1..Len(s) : q[i] = q[j] => i = j}}

\* what .sort((a, b) => b.xp - a.xp) can return: the stable sort, and any
\* order when the comparator is inconsistent (implementation-defined)
SortByXPOutcomes(entries) ==
    IF ConsistentXP(entries) THEN {SortByXP(entries)} ELSE ArrangementsOf(entries)

\* the values groupXPByProject can return
groupXPByProject(transactions) ==
    IF ~transactions.present \/ Len(transactions.list) = 0 THEN {<<>>}
    ELSE SortByXPOutcomes(ProjectMap(transactions.list, Len(transactions.list)))

\* Array.prototype.slice(0, end): a negative end counts from the back
Slice0(s, end) ==
    LET final == IF end < 0 THEN (IF Len(s) + end < 0 THEN 0 ELSE Len(s) + end)
                 ELSE (IF end > Len(s) THEN Len(s) ELSE end)
    IN  SubSeq(s, 1, final)

\* the values getTopProjects(transactions, limit) can return
getTopProjects(transactions, limit) ==
    {Slice0(grouped, limit) : grouped \in groupXPByProject(transactions)}

\* mutant of calculateAuditRatio: the auditsReceived > 0 guard left out
calculateAuditRatio_Unguarded(auditsDone, auditsReceived) ==
    LET ratio == JsDiv(Num(auditsDone), Num(auditsReceived))
    IN  [done        |-> auditsDone,
         received    |-> auditsReceived,
         ratio       |-> ratio,
         ratioString |-> ToFixed2(ratio),
         status      |-> IF JsGe(ratio, Num(1)) THEN "good"
                         ELSE IF JsGe(ratio, Frac(1, 2)) THEN "average" ELSE "low"]

calculateAuditRatio(auditsDone, auditsReceived) ==
    LET ratio == IF auditsReceived > 0 THEN JsDiv(Num(auditsDone), Num(auditsReceived))
                 ELSE Num(0)
    IN  [done        |-> auditsDone,
         received    |-> auditsReceived,
         ratio       |-> ratio,
         ratioString |-> ToFixed2(ratio),
         status      |-> IF JsGe(ratio, Num(1)) THEN "good"
                         ELSE IF JsGe(ratio, Frac(1, 2)) THEN "average" ELSE "low"]

\* Number.prototype.toFixed(1) of a finite number that is not negative
ToFixed1(v) ==
    LET m == (20 * v.n + v.d) \div (2 * v.d)
    IN  ToString(m \div 10) \o "." \o ToString(m % 10)

\* mutant of calculatePassFailStats: a result passes only above grade 1
calculatePassFailStats_PassAbove1(results) ==
    IF ~results.present \/ Len(results.list) = 0
    THEN [passed |-> 0, failed |-> 0, total |-> 0, passRate |-> Num(0), failRate |-> Num(0)]
    ELSE LET passed == Cardinality({i \in 1..Len(results.list) : JsGt(results.list[i].grade, Num(1))})
             failed == Cardinality({i \in 1..Len(results.list) : JsGt(Num(1), results.list[i].grade)})
             total  == Len(results.list)
             passRate == JsMul(JsDiv(Num(passed), Num(total)), Num(100))
             failRate == JsMul(JsDiv(Num(failed), Num(total)), Num(100))
         IN  [passed         |-> passed,
              failed         |-> failed,
              total          |-> total,
              passRate       |-> passRate,
              failRate       |-> failRate,
              passRateString |-> ToFixed1(passRate) \o "%",
              failRateString |-> ToFixed1(failRate) \o "%"]

\* passed counts grade >= 1, failed counts grade < 1 (an undefined grade is
\* NaN in both comparisons and counted in neither); total is never 0 in the
\* second branch
calculatePassFailStats(results) ==
    IF ~results.present \/ Len(results.list) = 0
    THEN [passed |-> 0, failed |-> 0, total |-> 0, passRate |-> Num(0), failRate |-> Num(0)]
    ELSE LET passed == Cardinality({i \in 1..Len(results.list) : JsGe(results.list[i].grade, Num(1))})
             failed == Cardinality({i \in 1..Len(results.list) : JsGt(Num(1), results.list[i].grade)})
             total  == Len(results.list)
             passRate == JsMul(JsDiv(Num(passed), Num(total)), Num(100))
             failRate == JsMul(JsDiv(Num(failed), Num(total)), Num(100))
         IN  [passed         |-> passed,
              failed         |-> failed,
              total          |-> total,
              passRate       |-> passRate,
              failRate       |-> failRate,
              passRateString |-> ToFixed1(passRate) \o "%",
              failRateString |-> ToFixed1(failRate) \o "%"]

(***************************************************************************)
(* DataProcessor as a state machine: a behaviour is one call.  The         *)
(* arguments are drawn at the start, the action applies the operation to   *)
(* them and records what it returned.                                      *)
(***************************************************************************)
TransactionArgs ==
    {[kind |-> "transactions", transactions |-> t, done |-> 0, received |-> 0] :
        t \in {ListOf(l) : l \in SeqsUpTo(Transaction, MaxLen)} \cup {NoList}}

CountArgs ==
    {[kind |-> "counts", transactions |-> NoList, done |-> d, received |-> r] :
        d \in 0..MaxCount, r \in 0..MaxCount}

\* the results given to calculatePassFailStats: whole, fractional and negative
\* grades, and a result without a grade
MaxResults == 4
GradeValues == {Num(-1), Num(0), Frac(1, 2), Num(1), Num(2), Undefined}
Result == [grade : GradeValues]

ResultArgs ==
    {[kind |-> "results", transactions |-> NoList, done |-> 0, received |-> 0, results |-> r] :
        r \in {ListOf(l) : l \in SeqsUpTo(Result, MaxResults)} \cup {NoList}}

Returned(op, limit, value) == [op |-> op, limit |-> limit, value |-> value]

NoResult == Returned("none", 0, <<>>)

\* no render call made yet
NoCall == [outcome |-> "none"]

\* no tooltip element in document.body: a chart creates its own on first use
NoTooltip ==
    [exists |-> FALSE, visible |-> FALSE, marker |-> 0, earlier |-> FALSE, elements |-> 0]

\* no page open: a behaviour that exercises DataProcessor or a chart alone
NoSession == [page |-> "none"]

\* no profile page loaded, no query made
NoProfile == [currentEvent |-> "none"]
NoRequest == [state |-> "none"]

\* the renderer of a behaviour that only exercises DataProcessor: no chart drawn
ChartIdle ==
    /\ session = NoSession
    /\ profile = NoProfile
    /\ request = NoRequest
    /\ chart = "none"
    /\ container = <<>>
    /\ lastCall = NoCall
    /\ tooltip = NoTooltip

InitAgg ==
    /\ args \in TransactionArgs \cup CountArgs \cup ResultArgs
    /\ result = NoResult
    /\ ChartIdle

ProcessXPTimeline ==
    /\ args.kind = "transactions"
    /\ result = NoResult
    /\ result' = Returned("processXPTimeline", 0, processXPTimeline(args.transactions))
    /\ UNCHANGED <<args, chartVars, pageVars>>

GroupXPByProject ==
    /\ args.kind = "transactions"
    /\ result = NoResult
    /\ \E grouped \in groupXPByProject(args.transactions) :
           result' = Returned("groupXPByProject", 0, grouped)
    /\ UNCHANGED <<args, chartVars, pageVars>>

GetTopProjects ==
    /\ args.kind = "transactions"
    /\ result = NoResult
    /\ \E limit \in Limits :
       \E top \in getTopProjects(args.transactions, limit) :
           result' = Returned("getTopProjects", limit, top)
    /\ UNCHANGED <<args, chartVars, pageVars>>

CalculateAuditRatio ==
    /\ args.kind = "counts"
    /\ result = NoResult
    /\ result' = Returned("calculateAuditRatio", 0, calculateAuditRatio(args.done, args.received))
    /\ UNCHANGED <<args, chartVars, pageVars>>

CalculatePassFailStats ==
    /\ args.kind = "results"
    /\ result = NoResult
    /\ result' = Returned("calculatePassFailStats", 0, calculatePassFailStats(args.results))
    /\ UNCHANGED <<args, chartVars, pageVars>>

NextAgg ==
    \/ ProcessXPTimeline
    \/ GroupXPByProject
    \/ GetTopProjects
    \/ CalculateAuditRatio
    \/ CalculatePassFailStats

SpecAgg == InitAgg /\ [][NextAgg]_vars

(***************************************************************************)
(* Claims about DataProcessor (checked under SpecAgg).                     *)
(***************************************************************************)
\* what the claims compare against, computed on the input as given
InputList == args.transactions.list

AmountsPresent(list) == \A i \in 1..Len(list) : list[i].amount.k = "num"

RECURSIVE SumOfAmounts(_)
SumOfAmounts(list) ==
    IF list = <<>> THEN 0
    ELSE list[Len(list)].amount.n + SumOfAmounts(SubSeq(list, 1, Len(list) - 1))

\* the input transactions that carry an amount and satisfy Keep, as a set of positions
RECURSIVE SumOver(_, _)
SumOver(list, positions) ==
    IF positions = {} THEN 0
    ELSE LET i == CHOOSE j \in positions : TRUE
         IN  list[i].amount.n + SumOver(list, positions \ {i})

\* how often transaction t occurs in a list / in a timeline
Occurrences(list, t) == Cardinality({i \in 1..Len(list) : list[i] = t})
TimelineOccurrences(tl, t) ==
    Cardinality({i \in 1..Len(tl) :
        /\ tl[i].date = t.createdAt
        /\ tl[i].amount = t.amount
        /\ tl[i].objectName = ObjectName(t)})

\* C1: processXPTimeline returns the input's entries ordered ascending by
\* timestamp, whatever the input order; when every amount is present,
\* cumulative[1] = amount[1], cumulative[i] = cumulative[i-1] + amount[i], the
\* last running total is the sum of all input amounts, and the running totals
\* never decrease when no amount is negative.
C1_TimelineRunningTotals ==
    result.op = "processXPTimeline" =>
        LET tl == result.value
            n  == Len(result.value)
        IN  /\ n = Len(InputList)
            /\ \A i \in 1..n : TimelineOccurrences(tl, InputList[i]) >= Occurrences(InputList, InputList[i])
            /\ \A i \in 1..(n - 1) : tl[i].date <= tl[i + 1].date
            /\ AmountsPresent(InputList) =>
                /\ \A i \in 1..n : tl[i].cumulative.k = "num" /\ tl[i].cumulative.d = 1
                /\ n > 0 => tl[1].cumulative = tl[1].amount
                /\ \A i \in 2..n : tl[i].cumulative.n = tl[i - 1].cumulative.n + tl[i].amount.n
                /\ n > 0 => tl[n].cumulative.n = SumOfAmounts(InputList)
                /\ (\A i \in 1..n : InputList[i].amount.n >= 0) =>
                        \A i \in 1..(n - 1) : tl[i].cumulative.n <= tl[i + 1].cumulative.n

\* C1 witness: a list given out of order, with two different amounts, was processed
C1_Witness ==
    /\ result.op = "processXPTimeline"
    /\ Len(InputList) = 2
    /\ AmountsPresent(InputList)
    /\ InputList[1].createdAt > InputList[2].createdAt
    /\ InputList[1].amount # InputList[2].amount
    /\ result.value[2].cumulative = Num(1)

\* C2: groupXPByProject is a lossless partition: one entry per distinct subject
\* name of the input, and (every amount present) the group totals add up to
\* the sum of all input amounts.
C2_GroupingLosslessPartition ==
    result.op = "groupXPByProject" =>
        LET groups == result.value
            labels == {ObjectName(InputList[i]) : i \in 1..Len(InputList)}
        IN  /\ {groups[j].name : j \in 1..Len(groups)} = labels
            /\ Len(groups) = Cardinality(labels)
            /\ AmountsPresent(InputList) =>
                /\ \A j \in 1..Len(groups) : groups[j].xp.k = "num" /\ groups[j].xp.d = 1
                /\ SumOver([j \in 1..Len(groups) |-> [amount |-> groups[j].xp]], 1..Len(groups))
                        = SumOfAmounts(InputList)

\* C2 witness: two transactions of one subject were merged into a single entry
C2_Witness ==
    /\ result.op = "groupXPByProject"
    /\ Len(InputList) = 2
    /\ AmountsPresent(InputList)
    /\ InputList[1].name = "A" /\ InputList[2].name = "A"
    /\ InputList[1].amount = Num(2) /\ InputList[2].amount = Num(2)
    /\ result.value = <<[name |-> "A", xp |-> Num(4)]>>

\* the first max(n, 0) entries of s
FirstN(s, n) ==
    SubSeq(s, 1, IF n <= 0 THEN 0 ELSE IF n > Len(s) THEN Len(s) ELSE n)

\* C3 (as claimed): getTopProjects(transactions, n) is the first max(n, 0)
\* entries of groupXPByProject(transactions): at most n entries, all groups
\* when there are fewer than n, and none when n <= 0, negative n included.
C3_TopNIsPrefixOfGroups ==
    result.op = "getTopProjects" =>
        /\ result.value \in {FirstN(g, result.limit) : g \in groupXPByProject(args.transactions)}
        /\ result.limit <= 0 => result.value = <<>>
        /\ result.limit > 0 => Len(result.value) <= result.limit

\* two-decimal rendering of m hundredths, digit by digit
DigitChar(d) == <<"0", "1", "2", "3", "4", "5", "6", "7", "8", "9">>[d + 1]
RECURSIVE Decimal(_)
Decimal(n) == IF n < 10 THEN DigitChar(n) ELSE Decimal(n \div 10) \o DigitChar(n % 10)
Hundredths(m) == Decimal(m \div 100) \o "." \o DigitChar((m \div 10) % 10) \o DigitChar(m % 10)

\* the hundredths nearest to p / q (q > 0), the larger of two equally near ones
NearestHundredths(p, q) ==
    CHOOSE m \in 0..(100 * p + 1) :
        /\ 2 * Abs(100 * p - m * q) <= q
        /\ \A o \in 0..(100 * p + 1) : 2 * Abs(100 * p - o * q) <= q => o <= m

\* C4: the audit ratio string is performed / received rounded to two decimal
\* places when received > 0 and "0.00" when received = 0; the ratio is always
\* a finite number (no division fault, NaN or Infinity).
C4_AuditRatioString ==
    result.op = "calculateAuditRatio" =>
        /\ result.value.ratio.k = "num"
        /\ args.received = 0 => result.value.ratioString = "0.00"
        /\ args.received > 0 =>
               result.value.ratioString = Hundredths(NearestHundredths(args.done, args.received))
        /\ (args.done = 4 /\ args.received = 2) => result.value.ratioString = "2.00"

\* C4 witness: a ratio was asked for with audits done and none received
C4_Witness ==
    /\ result.op = "calculateAuditRatio"
    /\ args.done = 3
    /\ args.received = 0
    /\ result.value.ratioString = "0.00"

\* the positions of the input whose amount is present
PresentIn(list, positions) == {i \in positions : list[i].amount.k = "num"}

\* C10 (as claimed): an absent name is the label "Unknown" and an absent amount
\* counts as 0, so every running total and every group total is a defined
\* number equal to the sum of the amounts that are present.
C10_MissingFieldsDefaulted ==
    /\ result.op = "processXPTimeline" =>
        \A i \in 1..Len(result.value) :
            LET sorted == SortByDate(InputList)
            IN  /\ result.value[i].objectName = (IF sorted[i].name = "" THEN "Unknown" ELSE sorted[i].name)
                /\ result.value[i].cumulative = Num(SumOver(sorted, PresentIn(sorted, 1..i)))
    /\ result.op = "groupXPByProject" =>
        \A j \in 1..Len(result.value) :
            LET members == {i \in 1..Len(InputList) :
                                (IF InputList[i].name = "" THEN "Unknown" ELSE InputList[i].name)
                                    = result.value[j].name}
            IN  /\ members # {}
                /\ result.value[j].xp = Num(SumOver(InputList, PresentIn(InputList, members)))

(***************************************************************************)
(* The chart renderers.  A behaviour follows one chart object: the charts  *)
(* share no state (each has its own container element and its own tooltip  *)
(* id), and JavaScript runs a render call or an event handler to its end    *)
(* before the next one starts.  The container element is taken to exist in  *)
(* the page.  The state is the structure of the document: which nodes are   *)
(* attached, what was drawn from which data and which primitives carry      *)
(* listeners; colours, fonts and animations are left out.                   *)
(*                                                                         *)
(* A node's identity is kept as the flag "earlier": TRUE for a node that a  *)
(* render call before the last one created.                                 *)
(***************************************************************************)
MaxPoints == 2      \* longest transaction list given to a renderer

Charts == {"XPTimeline", "XPTimeline/storage.js", "AuditRatio", "ProjectStats", "XPByProject"}

ChartAmounts         == {Num(0), Num(2)}
TimelineTransactions == [createdAt : Times, amount : ChartAmounts, name : {"A"}]
ProjectTransactions  == [createdAt : {1}, amount : ChartAmounts, name : Labels]

TransactionData(universe) ==
    {NoList} \cup {ListOf(l) : l \in SeqsUpTo(universe, MaxPoints)}

\* the argument of AuditRatio.render / ProjectStats.render: the two aggregate
\* counts, or no object at all
CountData ==
    {[present |-> FALSE, first |-> 0, second |-> 0]}
        \cup {[present |-> TRUE, first |-> a, second |-> b] : a, b \in 0..MaxCount}

\* the same, and counts whose pass rate is just below and just above one half
ResultCountData ==
    CountData \cup {[present |-> TRUE, first |-> 500, second |-> 501],
                    [present |-> TRUE, first |-> 501, second |-> 500]}

\* data?.x?.aggregate?.count || 0
CountOr0(data, count) == IF data.present /\ count # 0 THEN count ELSE 0

\* <div class="empty-state">: the placeholder
EmptyState == [tag |-> "empty-state", earlier |-> FALSE]

\* the <svg> element a createGraph builds, with the scene drawn in it
Svg(scene) == [tag |-> "svg", earlier |-> FALSE, scene |-> scene]

\* the children as the next render call finds them: made by an earlier call
Aged(children) == [i \in 1..Len(children) |-> [children[i] EXCEPT !.earlier = TRUE]]

\* mutant of clearContainer: the loop never removes a child
clearContainer_KeepsChildren(children) == children

\* while (container.firstChild) container.removeChild(container.firstChild)
clearContainer(children) == SubSeq(children, 1, 0)

\* container.innerHTML = `<div class="empty-state">...`: replaces every child
showEmptyState(children) == <<EmptyState>>

\* what a render call hands back: the container's children, and whether the
\* call ended by an exception leaving it
Completed(children) == [threw |-> FALSE, children |-> children]
Thrown(children)    == [threw |-> TRUE, children |-> children]

\* !transactions || transactions.length === 0
NoTransactions(transactions) == ~transactions.present \/ Len(transactions.list) = 0

\* mutant of NoCounts: the check for "no data" left out
NoCounts_CheckDropped(first, second) == FALSE

\* passed === 0 && failed === 0, auditsDone === 0 && auditsReceived === 0
NoCounts(first, second) == first = 0 /\ second = 0

(***************************************************************************)
(* XPTimeline (src/js/graphs/xp-timeline.js, and the shorter revision in   *)
(* src/js/auth/storage.js).                                                *)
(***************************************************************************)
\* Math.max(...values): NaN if any value is NaN, -Infinity for no value
RECURSIVE MathMax(_)
MathMax(values) ==
    IF values = <<>> THEN Infinity(-1)
    ELSE LET h    == ToNumber(Head(values))
             rest == MathMax(Tail(values))
         IN  IF h.k = "nan" \/ rest.k = "nan" THEN NaN
             ELSE IF JsGt(h, rest) THEN h ELSE rest

MathFloor(v) == IF v.k = "num" THEN Num(v.n \div v.d) ELSE v

\* data[index] is an element only for an integer index inside the array;
\* otherwise it is undefined (data[NaN] is)
HasElement(data, index) ==
    index.k = "num" /\ index.d = 1 /\ index.n >= 0 /\ index.n < Len(data)

TimelineGraphWidth  == 800 - 80 - 40
TimelineGraphHeight == 400 - 40 - 60
CompactGraphWidth   == 700 - 60 - 30
CompactGraphHeight  == 350 - 50 - 50

\* ((date - minDate) / dateRange) * graphWidth
ScaleX(date, minDate, dateRange, graphWidth) ==
    JsMul(JsDiv(Num(date - minDate), Num(dateRange)), Num(graphWidth))

\* graphHeight - (cumulative / maxXP) * graphHeight
ScaleY(cumulative, maxXP, graphHeight) ==
    JsSub(Num(graphHeight), JsMul(JsDiv(cumulative, maxXP), Num(graphHeight)))

\* const points = data.map(d => ({ x: ..., y: ... }))
Points(data, graphWidth, graphHeight) ==
    LET maxXP     == MathMax([i \in 1..Len(data) |-> data[i].cumulative])
        minDate   == data[1].date
        maxDate   == data[Len(data)].date
        dateRange == maxDate - minDate
    IN  [i \in 1..Len(data) |->
            [x |-> ScaleX(data[i].date, minDate, dateRange, graphWidth),
             y |-> ScaleY(data[i].cumulative, maxXP, graphHeight)]]

\* the path data as its commands; Z takes no coordinates
PathTo(c, x, y) == [c |-> c, x |-> x, y |-> y]
ClosePath       == [c |-> "Z", x |-> Num(0), y |-> Num(0)]

createAreaPath(points, graphHeight) ==
    IF Len(points) = 0 THEN <<>>
    ELSE <<PathTo("M", points[1].x, Num(graphHeight))>>
         \o [i \in 1..Len(points) |-> PathTo("L", points[i].x, points[i].y)]
         \o <<PathTo("L", points[Len(points)].x, Num(graphHeight)), ClosePath>>

\* xTicks = Math.min(data.length, 6);
\* index = Math.floor((i * (data.length - 1)) / (xTicks - 1)), i = 0..xTicks-1
XTickIndexes(data) ==
    LET xTicks == IF Len(data) < 6 THEN Len(data) ELSE 6
    IN  [i \in 1..xTicks |->
            MathFloor(JsDiv(Num((i - 1) * (Len(data) - 1)), Num(xTicks - 1)))]

\* the shorter revision: idx = Math.floor((i * (data.length - 1)) / 3), i = 0..3
XTickIndexesCompact(data) ==
    [i \in 1..4 |-> MathFloor(JsDiv(Num((i - 1) * (Len(data) - 1)), Num(3)))]

\* the scene of a timeline: the axis ticks, the line's points, the area path
\* and one marker per data point, each with mouseenter / mouseleave listeners
TimelineScene(data, ticks, graphWidth, graphHeight) ==
    LET minDate   == data[1].date
        dateRange == data[Len(data)].date - minDate
        points    == Points(data, graphWidth, graphHeight)
    IN  [data     |-> data,
         ticks    |-> [i \in 1..Len(ticks) |->
                          [index |-> ticks[i].n,
                           x     |-> ScaleX(data[ticks[i].n + 1].date, minDate,
                                            dateRange, graphWidth)]],
         points   |-> points,
         areaPath |-> createAreaPath(points, graphHeight),
         markers  |-> 1..Len(data)]

\* mutant of XPTimeline_createGraph: the points with their listeners are drawn
\* and the <svg> is appended before the X labels
XPTimeline_createGraph_AttachedEarly(children, data) ==
    LET ticks == XTickIndexes(data)
    IN  IF \E i \in 1..Len(ticks) : ~HasElement(data, ticks[i])
        THEN Thrown(Append(children,
                 Svg([data    |-> data,
                      points  |-> Points(data, TimelineGraphWidth, TimelineGraphHeight),
                      markers |-> 1..Len(data)])))
        ELSE Completed(Append(children,
                 Svg(TimelineScene(data, ticks, TimelineGraphWidth, TimelineGraphHeight))))

\* createGraph of xp-timeline.js.  In the X-label loop point = data[index];
\* reading point.date of an undefined point is a TypeError, raised before the
\* <svg> is appended (the last statement but one).
XPTimeline_createGraph(children, data) ==
    LET ticks == XTickIndexes(data)
    IN  IF \E i \in 1..Len(ticks) : ~HasElement(data, ticks[i])
        THEN Thrown(children)
        ELSE Completed(Append(children,
                 Svg(TimelineScene(data, ticks, TimelineGraphWidth, TimelineGraphHeight))))

\* createGraph of the shorter revision
XPTimelineCompact_createGraph(children, data) ==
    LET ticks == XTickIndexesCompact(data)
    IN  IF \E i \in 1..Len(ticks) : ~HasElement(data, ticks[i])
        THEN Thrown(children)
        ELSE Completed(Append(children,
                 Svg(TimelineScene(data, ticks, CompactGraphWidth, CompactGraphHeight))))

\* XPTimeline.render(transactions), from the container's children on entry
XPTimeline_render(children, transactions, compact) ==
    LET cleared == clearContainer(children)
    IN  IF NoTransactions(transactions) THEN Completed(showEmptyState(cleared))
        ELSE LET processedData == processXPTimeline(transactions)
             IN  IF Len(processedData) = 0 THEN Completed(showEmptyState(cleared))
                 ELSE IF compact THEN XPTimelineCompact_createGraph(cleared, processedData)
                 ELSE XPTimeline_createGraph(cleared, processedData)

(***************************************************************************)
(* AuditRatio (src/unnamed/part_009), ProjectStats                          *)
(* (src/js/graphs/project-stats.js), XPByProject                            *)
(* (src/js/graphs/xp-by-project.js).  None of their createGraph reads a     *)
(* property of a value that can be undefined, so none of them throws.       *)
(***************************************************************************)
StatsGraphHeight   == 400 - 60 - 80
ProjectsGraphWidth == 700 - 200 - 100

\* two donut segments, each with listeners, and the ratio text in the centre
\* (the segments' angles and paths are DonutSegments below)
AuditRatio_createGraph(children, auditsDone, auditsReceived) ==
    LET ratio == IF auditsReceived > 0
                 THEN ToFixed2(JsDiv(Num(auditsDone), Num(auditsReceived)))
                 ELSE "0.00"
        parsed == IF auditsReceived > 0
                  THEN ParseFixed(JsDiv(Num(auditsDone), Num(auditsReceived)), 100)
                  ELSE Num(0)
        status == IF JsGe(parsed, Num(1))
                  THEN [text |-> "Good Ratio", color |-> "#48bb78"]
                  ELSE IF JsGe(parsed, Frac(1, 2))
                       THEN [text |-> "Average Ratio", color |-> "#ed8936"]
                       ELSE [text |-> "Low Ratio", color |-> "#f56565"]
    IN  Completed(Append(children,
            Svg([done          |-> auditsDone,
                 received      |-> auditsReceived,
                 ratio         |-> ratio,
                 status        |-> status,
                 markers       |-> {1, 2}])))

AuditRatio_render(children, data) ==
    LET cleared        == clearContainer(children)
        auditsDone     == CountOr0(data, data.first)
        auditsReceived == CountOr0(data, data.second)
    IN  IF NoCounts(auditsDone, auditsReceived) THEN Completed(showEmptyState(cleared))
        ELSE AuditRatio_createGraph(cleared, auditsDone, auditsReceived)

\* maxValue > 0 ? (count / maxValue) * graphHeight : 0
BarHeight(count, maxValue) ==
    IF maxValue > 0 THEN JsMul(JsDiv(Num(count), Num(maxValue)), Num(StatsGraphHeight))
    ELSE Num(0)

\* two bars, each with listeners
ProjectStats_createGraph(children, passed, failed) ==
    LET maxValue == IF passed > failed THEN passed ELSE failed
        total    == passed + failed
        \* parseFloat(passRate), passRate = ((passed / total) * 100).toFixed(1) or 0
        passRate == IF total > 0
                    THEN ParseFixed(JsMul(JsDiv(Num(passed), Num(total)), Num(100)), 10)
                    ELSE Num(0)
    IN  Completed(Append(children,
            Svg([passed       |-> passed,
                 failed       |-> failed,
                 passHeight   |-> BarHeight(passed, maxValue),
                 failHeight   |-> BarHeight(failed, maxValue),
                 passRate     |-> passRate,
                 successColor |-> IF JsGe(passRate, Num(50)) THEN "#48bb78" ELSE "#ed8936",
                 markers      |-> {1, 2}])))

ProjectStats_render(children, data) ==
    LET cleared == clearContainer(children)
        passed  == CountOr0(data, data.first)
        failed  == CountOr0(data, data.second)
    IN  IF NoCounts(passed, failed) THEN Completed(showEmptyState(cleared))
        ELSE ProjectStats_createGraph(cleared, passed, failed)

\* one bar per project, each with listeners; barWidth = (xp / maxXP) * graphWidth
XPByProject_createGraph(children, projects) ==
    LET maxXP == MathMax([i \in 1..Len(projects) |-> projects[i].xp])
    IN  Completed(Append(children,
            Svg([projects  |-> projects,
                 barWidths |-> [i \in 1..Len(projects) |->
                                   JsMul(JsDiv(projects[i].xp, maxXP), Num(ProjectsGraphWidth))],
                 markers   |-> 1..Len(projects)])))

\* the outcomes of XPByProject.render(transactions): getTopProjects fixes one
\* order unless a total is NaN
XPByProject_render(children, transactions) ==
    LET cleared == clearContainer(children)
    IN  IF NoTransactions(transactions) THEN {Completed(showEmptyState(cleared))}
        ELSE {IF Len(topProjects) = 0 THEN Completed(showEmptyState(cleared))
              ELSE XPByProject_createGraph(cleared, topProjects) :
                  topProjects \in getTopProjects(transactions, 10)}

(***************************************************************************)
(* The tooltip.  Every chart's showTooltip looks its element up by id,      *)
(* creates it (hidden) when there is none, writes the content of the        *)
(* primitive under the pointer and sets opacity 1; hideTooltip sets         *)
(* opacity 0 on the element if there is one.  marker is the primitive whose *)
(* data the content was written from, earlier is that primitive's flag.     *)
(***************************************************************************)
\* elements counts the elements SVGBuilder.createTooltip has appended to the body
createTooltip(t) == [t EXCEPT !.exists = TRUE, !.visible = FALSE, !.elements = @ + 1]

\* mutant of showTooltip: the element is created without looking one up
showTooltip_AlwaysCreates(t, marker, earlier) ==
    [createTooltip(t) EXCEPT !.visible = TRUE, !.marker = marker, !.earlier = earlier]

showTooltip(t, marker, earlier) ==
    LET found == IF t.exists THEN t ELSE createTooltip(t)
    IN  [found EXCEPT !.visible = TRUE, !.marker = marker, !.earlier = earlier]

hideTooltip(t) == IF t.exists THEN [t EXCEPT !.visible = FALSE] ELSE t

\* the primitives of a node that carry mouseenter / mouseleave listeners
MarkersOf(node) == IF node.tag = "svg" THEN node.scene.markers ELSE {}

(***************************************************************************)
(* The renderer as a state machine.                                        *)
(***************************************************************************)
\* what the page's markup may have put into the container before any render
Markup == [tag |-> "markup", earlier |-> FALSE]

AggIdle ==
    /\ args = [kind |-> "none", transactions |-> NoList, done |-> 0, received |-> 0]
    /\ result = NoResult

Init ==
    /\ chart \in Charts
    /\ container \in {<<>>, <<Markup>>}
    /\ lastCall = NoCall
    /\ tooltip = NoTooltip
    /\ session = NoSession
    /\ profile = NoProfile
    /\ request = NoRequest
    /\ AggIdle

\* the state after render(data) ended with the given outcome; the primitive
\* the tooltip was written from now belongs to an earlier render
Rendered(data, outcome) ==
    /\ container' = outcome.children
    /\ lastCall' = [outcome |-> IF outcome.threw THEN "threw" ELSE "returned",
                    data    |-> data]
    /\ tooltip' = [tooltip EXCEPT !.earlier = (tooltip.marker # 0)]
    /\ UNCHANGED <<chart, aggVars, pageVars>>

RenderXPTimeline ==
    /\ chart = "XPTimeline"
    /\ \E transactions \in TransactionData(TimelineTransactions) :
           Rendered(transactions, XPTimeline_render(Aged(container), transactions, FALSE))

RenderXPTimelineCompact ==
    /\ chart = "XPTimeline/storage.js"
    /\ \E transactions \in TransactionData(TimelineTransactions) :
           Rendered(transactions, XPTimeline_render(Aged(container), transactions, TRUE))

RenderAuditRatio ==
    /\ chart = "AuditRatio"
    /\ \E data \in CountData : Rendered(data, AuditRatio_render(Aged(container), data))

RenderProjectStats ==
    /\ chart = "ProjectStats"
    /\ \E data \in ResultCountData : Rendered(data, ProjectStats_render(Aged(container), data))

RenderXPByProject ==
    /\ chart = "XPByProject"
    /\ \E transactions \in TransactionData(ProjectTransactions) :
       \E outcome \in XPByProject_render(Aged(container), transactions) :
           Rendered(transactions, outcome)

\* the pointer enters an attached primitive that has a mouseenter listener
MouseEnter ==
    /\ \E c \in 1..Len(container) : \E m \in MarkersOf(container[c]) :
           tooltip' = showTooltip(tooltip, m, container[c].earlier)
    /\ UNCHANGED <<chart, container, lastCall, aggVars, pageVars>>

\* the pointer leaves an attached primitive that has a mouseleave listener
MouseLeave ==
    /\ \E c \in 1..Len(container) : MarkersOf(container[c]) # {}
    /\ tooltip' = hideTooltip(tooltip)
    /\ UNCHANGED <<chart, container, lastCall, aggVars, pageVars>>

Next ==
    \/ RenderXPTimeline
    \/ RenderXPTimelineCompact
    \/ RenderAuditRatio
    \/ RenderProjectStats
    \/ RenderXPByProject
    \/ MouseEnter
    \/ MouseLeave

Spec == Init /\ [][Next]_vars

(***************************************************************************)
(* Claims about the renderers (checked under Spec).                        *)
(***************************************************************************)
Timelines == {"XPTimeline", "XPTimeline/storage.js"}

\* a render call has been made, and the series it was given is empty: an
\* absent or zero-length transaction list, or both counts 0
LastSeriesEmpty ==
    /\ lastCall.outcome # "none"
    /\ IF chart \in {"AuditRatio", "ProjectStats"}
       THEN lastCall.data.first = 0 /\ lastCall.data.second = 0
       ELSE ~lastCall.data.present \/ Len(lastCall.data.list) = 0

\* C5: after a render call whose series is empty, whichever the chart, the
\* container holds exactly the empty-state placeholder, no svg element, and no
\* attached primitive carries a hover listener.
C5_EmptySeriesShowsPlaceholder ==
    LastSeriesEmpty =>
        /\ lastCall.outcome = "returned"
        /\ container = <<EmptyState>>
        /\ \A c \in 1..Len(container) :
               container[c].tag # "svg" /\ MarkersOf(container[c]) = {}

\* an empty series was rendered over a scene that had been hovered
C5_Witness ==
    /\ LastSeriesEmpty
    /\ tooltip.marker # 0
    /\ container = <<EmptyState>>

\* the scene was drawn from the data of the last call
SceneShowsLastData(scene) ==
    CASE chart \in Timelines ->
             /\ scene.data = processXPTimeline(lastCall.data)
             /\ scene.markers = 1..Len(lastCall.data.list)
      [] chart = "XPByProject" ->
             /\ scene.projects \in getTopProjects(lastCall.data, 10)
             /\ scene.markers = 1..Len(scene.projects)
      [] chart = "AuditRatio" ->
             scene.done = lastCall.data.first /\ scene.received = lastCall.data.second
      [] chart = "ProjectStats" ->
             scene.passed = lastCall.data.first /\ scene.failed = lastCall.data.second

\* C6: no node created by a render call before the last one is attached (so
\* none of its listeners can fire), and when the last call returned, the
\* container holds exactly one node: the placeholder if the last data was
\* empty, else one scene drawn from the last data.
C6_ContainerHoldsLastRenderOnly ==
    /\ \A c \in 1..Len(container) : ~container[c].earlier
    /\ lastCall.outcome = "returned" =>
           /\ Len(container) = 1
           /\ IF LastSeriesEmpty THEN container[1].tag = "empty-state"
              ELSE container[1].tag = "svg" /\ SceneShowsLastData(container[1].scene)

\* a scene replaced an earlier scene one of whose primitives had been hovered
C6_Witness ==
    /\ lastCall.outcome = "returned"
    /\ tooltip.earlier
    /\ Len(container) = 1
    /\ container[1].tag = "svg"

\* C7 (as claimed): when scene construction fails part-way through a render
\* call, the container afterwards shows the empty-state placeholder, not a
\* blank container and not a partial scene.
C7_FailedRenderFallsBackToEmptyState ==
    lastCall.outcome = "threw" => container = <<EmptyState>>

\* a path that starts with a move, ends with a close and has finite coordinates
ValidClosedPath(path) ==
    /\ Len(path) >= 2
    /\ path[1].c = "M"
    /\ path[Len(path)].c = "Z"
    /\ \A i \in 1..Len(path) : IsFinite(path[i].x) /\ IsFinite(path[i].y)

\* C8 (as claimed): rendering a timeline for a list of exactly one
\* transaction returns normally and attaches one scene with one interactive
\* marker, a valid closed area path of zero width, and X-axis ticks that all
\* index the one data point.
C8_SinglePointTimelineRenders ==
    (/\ chart \in Timelines
     /\ lastCall.outcome # "none"
     /\ lastCall.data.present
     /\ Len(lastCall.data.list) = 1) =>
        /\ lastCall.outcome = "returned"
        /\ Len(container) = 1
        /\ container[1].tag = "svg"
        /\ container[1].scene.markers = {1}
        /\ ValidClosedPath(container[1].scene.areaPath)
        /\ \A i, j \in 1..Len(container[1].scene.areaPath) - 1 :
               container[1].scene.areaPath[i].x = container[1].scene.areaPath[j].x
        /\ \A i \in 1..Len(container[1].scene.ticks) :
               container[1].scene.ticks[i].index = 0

\* C9 (as claimed): in an attached timeline scene every point's coordinates
\* are finite numbers, and when the first and the last date coincide every
\* point's x is 0.
C9_DegenerateDomainScaling ==
    (/\ chart \in Timelines
     /\ Len(container) = 1
     /\ container[1].tag = "svg") =>
        LET scene == container[1].scene
        IN  /\ \A i \in 1..Len(scene.points) :
                   IsFinite(scene.points[i].x) /\ IsFinite(scene.points[i].y)
            /\ scene.data[1].date = scene.data[Len(scene.data)].date =>
                   \A i \in 1..Len(scene.points) : scene.points[i].x = Num(0)

(***************************************************************************)
(* IEEE 754 double arithmetic, for the places where the code's numbers are  *)
(* not exact: a double is sign * m * 2^e with the natural number m given by *)
(* its binary digits, least significant first, no high zero digit, and in   *)
(* canonical form odd (zero is the empty digit sequence with e = 0).  Every *)
(* operation rounds its exact result to 53 significant digits, ties to the  *)
(* even neighbour.  Exponents stay far from the format's limits here.       *)
(***************************************************************************)
Precision == 53      \* significant binary digits of a double
ExtraDigits == Precision + 11    \* binary places of a quotient computed before rounding

\* the binary digits of a small natural number
RECURSIVE Bits(_)
Bits(n) == IF n = 0 THEN <<>> ELSE <<n % 2>> \o Bits(n \div 2)

Zeros(n) == [i \in 1..n |-> 0]

SetMax(S) == CHOOSE x \in S : \A y \in S : x >= y

\* without the high zero digits
Trim(a) ==
    LET ones == {i \in 1..Len(a) : a[i] = 1}
    IN  IF ones = {} THEN <<>> ELSE SubSeq(a, 1, SetMax(ones))

DigitAt(a, i) == IF i <= Len(a) THEN a[i] ELSE 0

\* the carry into place i of a + b: some lower place generates one and every
\* place in between passes it on
CarryInto(a, b, i) ==
    \E j \in 1..(i - 1) :
        /\ DigitAt(a, j) + DigitAt(b, j) = 2
        /\ \A k \in (j + 1)..(i - 1) : DigitAt(a, k) + DigitAt(b, k) >= 1

BitsAdd(a, b) ==
    LET n == (IF Len(a) > Len(b) THEN Len(a) ELSE Len(b)) + 1
    IN  Trim([i \in 1..n |->
                 (DigitAt(a, i) + DigitAt(b, i)
                     + (IF CarryInto(a, b, i) THEN 1 ELSE 0)) % 2])

BorrowInto(a, b, i) ==
    \E j \in 1..(i - 1) :
        /\ DigitAt(a, j) < DigitAt(b, j)
        /\ \A k \in (j + 1)..(i - 1) : DigitAt(a, k) <= DigitAt(b, k)

\* a - b for a >= b
BitsSub(a, b) ==
    Trim([i \in 1..Len(a) |->
             (2 + DigitAt(a, i) - DigitAt(b, i)
                 - (IF BorrowInto(a, b, i) THEN 1 ELSE 0)) % 2])

BitsLess(a, b) ==
    IF Len(a) # Len(b) THEN Len(a) < Len(b)
    ELSE \E i \in 1..Len(a) :
             a[i] < b[i] /\ \A j \in (i + 1)..Len(a) : a[j] = b[j]

ShiftLeft(a, n) == IF Len(a) = 0 THEN a ELSE Zeros(n) \o a

\* a * k, k given by its digits: the sum of the shifted copies of a
RECURSIVE BitsTimes(_, _, _)
BitsTimes(a, k, place) ==
    IF Len(k) = 0 THEN <<>>
    ELSE BitsAdd(IF Head(k) = 1 THEN ShiftLeft(a, place) ELSE <<>>,
                 BitsTimes(a, Tail(k), place + 1))

DblZero == [s |-> 1, m |-> <<>>, e |-> 0]

Canonical(s, m, e) ==
    IF Len(m) = 0 THEN DblZero
    ELSE LET low == SetMin({i \in 1..Len(m) : m[i] = 1})
         IN  [s |-> s, m |-> SubSeq(m, low, Len(m)), e |-> e + low - 1]

\* round to nearest, ties to even
Round53(s, m, e) ==
    IF Len(m) <= Precision THEN Canonical(s, m, e)
    ELSE LET drop   == Len(m) - Precision
             kept   == SubSeq(m, drop + 1, Len(m))
             sticky == \E i \in 1..(drop - 1) : m[i] = 1
             up     == m[drop] = 1 /\ (sticky \/ kept[1] = 1)
         IN  Canonical(s, IF up THEN BitsAdd(kept, <<1>>) ELSE kept, e + drop)

\* the double of an integer
Dbl(n) == Canonical(IF n < 0 THEN -1 ELSE 1, Bits(Abs(n)), 0)

DblNeg(x) == IF Len(x.m) = 0 THEN x ELSE [x EXCEPT !.s = -x.s]

\* b^k mod t
RECURSIVE PowMod(_, _, _)
PowMod(b, k, t) == IF k = 0 THEN 1 % t ELSE (b * PowMod(b, k - 1, t)) % t

\* 2^i mod t, for t < 2^15
Pow2Mod(i, t) == ((2^(i % 15) % t) * PowMod(2^15 % t, i \div 15, t)) % t

\* what is left of n / t after i binary places, times t
RemainderAfter(n, t, i) == ((n % t) * Pow2Mod(i, t)) % t

\* n / t for integers n >= 0, t > 0: the integer part, ExtraDigits binary
\* places, and a last digit that tells whether anything is left; then rounded
DblQuotient(n, t) ==
    LET places == [j \in 1..ExtraDigits |->
                      (2 * RemainderAfter(n, t, ExtraDigits - j)) \div t]
        rest   == IF RemainderAfter(n, t, ExtraDigits) # 0 THEN 1 ELSE 0
    IN  Round53(1, Trim(<<rest>> \o places \o Bits(n \div t)), -ExtraDigits - 1)

\* x * k for an integer k > 0
DblTimes(x, k) == Round53(x.s, BitsTimes(x.m, Bits(k), 0), x.e)

DblPlus(x, y) ==
    LET e == IF x.e < y.e THEN x.e ELSE y.e
        a == ShiftLeft(x.m, x.e - e)
        b == ShiftLeft(y.m, y.e - e)
    IN  IF x.s = y.s THEN Round53(x.s, BitsAdd(a, b), e)
        ELSE IF a = b THEN DblZero
        ELSE IF BitsLess(a, b) THEN Round53(y.s, BitsSub(b, a), e)
        ELSE Round53(x.s, BitsSub(a, b), e)

DblMinus(x, y) == DblPlus(x, DblNeg(y))

\* x > y: rounding a difference never changes its sign
DblGreater(x, y) == LET diff == DblMinus(x, y) IN Len(diff.m) > 0 /\ diff.s = 1

(***************************************************************************)
(* The geometry the charts compute, as functions of the counts: a          *)
(* behaviour draws the counts and applies one computation to them.         *)
(***************************************************************************)
MaxAudits == 10     \* largest count given to the donut

\* a path command of a donut segment: a point is named by its radius and its
\* angle, since its coordinates are cx + r * cos(angle), cy + r * sin(angle)
ArcCommand(c, radius, large, sweep, angle) ==
    [c |-> c, radius |-> radius, large |-> large, sweep |-> sweep, angle |-> angle]

\* mutant of createDonutSegment: the flag is set from 180 degrees on
createDonutSegment_FromHalfCircle(startAngle, endAngle) ==
    LET largeArc == IF ~DblGreater(Dbl(180), DblMinus(endAngle, startAngle)) THEN 1 ELSE 0
    IN  <<ArcCommand("M", "outer", 0, 0, startAngle),
          ArcCommand("A", "outer", largeArc, 1, endAngle),
          ArcCommand("L", "inner", 0, 0, endAngle),
          ArcCommand("A", "inner", largeArc, 0, startAngle),
          ArcCommand("Z", "none", 0, 0, startAngle)>>

\* createDonutSegment of part_009, createArc of part_003:
\* M outer(start) A outerR outerR 0 largeArc 1 outer(end)
\* L inner(end) A innerR innerR 0 largeArc 0 inner(start) Z
createDonutSegment(startAngle, endAngle) ==
    LET largeArc == IF DblGreater(DblMinus(endAngle, startAngle), Dbl(180)) THEN 1 ELSE 0
    IN  <<ArcCommand("M", "outer", 0, 0, startAngle),
          ArcCommand("A", "outer", largeArc, 1, endAngle),
          ArcCommand("L", "inner", 0, 0, endAngle),
          ArcCommand("A", "inner", largeArc, 0, startAngle),
          ArcCommand("Z", "none", 0, 0, startAngle)>>

DonutSegment(value, span, startAngle, endAngle) ==
    [value      |-> value,
     span       |-> span,
     startAngle |-> startAngle,
     endAngle   |-> endAngle,
     path       |-> createDonutSegment(startAngle, endAngle)]

\* mutant of DonutSegments: startAngle is not advanced past the first segment
DonutSegments_StartNotAdvanced(auditsDone, auditsReceived) ==
    LET total         == auditsDone + auditsReceived
        startAngle    == Dbl(-90)
        doneAngle     == DblTimes(DblQuotient(auditsDone, total), 360)
        receivedAngle == DblTimes(DblQuotient(auditsReceived, total), 360)
    IN  <<DonutSegment(auditsDone, doneAngle, startAngle, DblPlus(startAngle, doneAngle)),
          DonutSegment(auditsReceived, receivedAngle, startAngle,
                       DblPlus(startAngle, receivedAngle))>>

\* the two segments AuditRatio.createGraph draws: let startAngle = -90;
\* doneAngle = (auditsDone / total) * 360; segment(startAngle, startAngle +
\* doneAngle); startAngle += doneAngle; receivedAngle = (auditsReceived /
\* total) * 360; segment(startAngle, startAngle + receivedAngle)
DonutSegments(auditsDone, auditsReceived) ==
    LET total         == auditsDone + auditsReceived
        startAngle    == Dbl(-90)
        doneAngle     == DblTimes(DblQuotient(auditsDone, total), 360)
        receivedStart == DblPlus(startAngle, doneAngle)
        receivedAngle == DblTimes(DblQuotient(auditsReceived, total), 360)
    IN  <<DonutSegment(auditsDone, doneAngle, startAngle, DblPlus(startAngle, doneAngle)),
          DonutSegment(auditsReceived, receivedAngle, receivedStart,
                       DblPlus(receivedStart, receivedAngle))>>

DonutArgs ==
    {[kind |-> "counts", transactions |-> NoList, done |-> d, received |-> r] :
        d \in 0..MaxAudits, r \in 0..MaxAudits}

InitGeometry ==
    /\ args \in DonutArgs
    /\ result = NoResult
    /\ ChartIdle

\* AuditRatio.render reaches createGraph only when the counts are not both 0
DrawDonut ==
    /\ args.kind = "counts"
    /\ result = NoResult
    /\ ~NoCounts(args.done, args.received)
    /\ result' = Returned("donutSegments", 0, DonutSegments(args.done, args.received))
    /\ UNCHANGED <<args, chartVars, pageVars>>

NextGeometry ==
    \/ DrawDonut

SpecGeometry == InitGeometry /\ [][NextGeometry]_vars

(***************************************************************************)
(* Claims about the geometry (checked under SpecGeometry).                 *)
(***************************************************************************)
\* |x| < 2^p
Within(x, p) == Len(x.m) = 0 \/ Len(x.m) + x.e <= p

\* x * k without rounding
ExactTimes(x, k) == Canonical(x.s, BitsTimes(x.m, Bits(k), 0), x.e)

\* |span - 360 * value / total| < 2^p, compared after multiplying by total
SpanNear(segment, total, p) ==
    LET off == DblMinus(ExactTimes(segment.span, total), Dbl(360 * segment.value))
    IN  DblGreater([s |-> 1, m |-> Bits(total), e |-> p],
                   [off EXCEPT !.s = 1])

ArcsOf(path) == {i \in 1..Len(path) : path[i].c = "A"}

SpansMoreThanHalf(segment) ==
    DblGreater(DblMinus(segment.endAngle, segment.startAngle), Dbl(180))

\* C12: in every donut segment the large-arc flag of the outer and of the
\* inner arc command is 1 exactly when endAngle - startAngle > 180 and 0
\* otherwise; a segment of exactly 180 degrees (equal counts) has flag 0,
\* and the flag is 1 exactly for the count that is more than half the total.
C12_LargeArcFlagAbove180 ==
    (result # NoResult /\ result.op = "donutSegments") =>
        \A i \in 1..Len(result.value) :
            LET segment == result.value[i]
                total == args.done + args.received
                flag == IF SpansMoreThanHalf(segment) THEN 1 ELSE 0
            IN  /\ Cardinality(ArcsOf(segment.path)) = 2
                /\ \E a \in ArcsOf(segment.path) : segment.path[a].radius = "outer"
                /\ \E a \in ArcsOf(segment.path) : segment.path[a].radius = "inner"
                /\ \A a \in ArcsOf(segment.path) : segment.path[a].large = flag
                /\ (flag = 1) <=> (2 * segment.value > total)
                /\ (2 * segment.value = total) =>
                       /\ segment.span = Dbl(180)
                       /\ \A a \in ArcsOf(segment.path) : segment.path[a].large = 0

\* equal counts: both segments span exactly 180 degrees
C12_Witness ==
    /\ result # NoResult
    /\ result.op = "donutSegments"
    /\ args.done = args.received
    /\ \A i \in 1..2 : DblMinus(result.value[i].endAngle, result.value[i].startAngle) = Dbl(180)
    /\ \A i \in 1..2 : \A a \in ArcsOf(result.value[i].path) : result.value[i].path[a].large = 0

(***************************************************************************)
(* Bars, status and colour of the charts drawn by Spec.                     *)
(***************************************************************************)
\* the length the bar of value on a track of trackLength is to have
BarExtent(value, maxValue, trackLength) ==
    IF JsGt(maxValue, Num(0)) THEN JsMul(JsDiv(value, maxValue), Num(trackLength))
    ELSE Num(0)

WithinTrack(length, trackLength) ==
    IsFinite(length) /\ JsGe(length, Num(0)) /\ JsGe(Num(trackLength), length)

\* C13: every bar of the pass/fail chart and of the ranked project chart is
\* (value / maxValue) * trackLength long when maxValue > 0 and 0 long when
\* maxValue is 0; for non-negative values no length is NaN, negative or
\* longer than the track.
C13_BarExtents ==
    /\ (/\ chart = "ProjectStats"
        /\ Len(container) = 1
        /\ container[1].tag = "svg") =>
           LET scene    == container[1].scene
               maxValue == MathMax(<<Num(scene.passed), Num(scene.failed)>>)
           IN  /\ scene.passHeight = BarExtent(Num(scene.passed), maxValue, StatsGraphHeight)
               /\ scene.failHeight = BarExtent(Num(scene.failed), maxValue, StatsGraphHeight)
               /\ WithinTrack(scene.passHeight, StatsGraphHeight)
               /\ WithinTrack(scene.failHeight, StatsGraphHeight)
    /\ (/\ chart = "XPByProject"
        /\ Len(container) = 1
        /\ container[1].tag = "svg") =>
           LET scene    == container[1].scene
               maxValue == MathMax([i \in 1..Len(scene.projects) |-> scene.projects[i].xp])
           IN  \A i \in 1..Len(scene.projects) :
                   /\ scene.barWidths[i] =
                          BarExtent(scene.projects[i].xp, maxValue, ProjectsGraphWidth)
                   /\ JsGe(scene.projects[i].xp, Num(0)) =>
                          WithinTrack(scene.barWidths[i], ProjectsGraphWidth)

\* C14: the ratio donut chooses its status from exactly two outcomes by one
\* threshold: the positive colour ("good") when performed / received >= 1,
\* the warning colour ("needs improvement") for every ratio below 1; there
\* is no third status.
C14_TwoStatuses ==
    (/\ chart = "AuditRatio"
     /\ Len(container) = 1
     /\ container[1].tag = "svg") =>
        LET scene == container[1].scene
            good  == scene.received > 0 /\ scene.done >= scene.received
        IN  /\ scene.status.color \in {"#48bb78", "#ed8936"}
            /\ scene.status.color = "#48bb78" <=> good
            /\ scene.status.text = "Good Ratio" <=> good
            /\ ~good => scene.status.color = "#ed8936"

\* C15: for counts (passed, failed) not both zero the success-rate indicator
\* of the pass/fail chart has the favourable colour exactly when
\* passed / (passed + failed) is at least one half, and the warning colour
\* exactly when it is below one half.
C15_SuccessColorAtHalf ==
    (/\ chart = "ProjectStats"
     /\ Len(container) = 1
     /\ container[1].tag = "svg") =>
        LET scene == container[1].scene
        IN  /\ scene.successColor = "#48bb78" <=> 2 * scene.passed >= scene.passed + scene.failed
            /\ scene.successColor = "#ed8936" <=> 2 * scene.passed < scene.passed + scene.failed

\* a hover callback can run: the pointer can enter or leave an attached
\* primitive that has listeners
HoverEnabled == ENABLED MouseEnter \/ ENABLED MouseLeave

\* C16: a hover callback of a primitive can run only after the render call
\* that created the primitive has finished: whenever a mouseenter or
\* mouseleave callback can fire, the chart's last render call has returned
\* and the attached primitives are those of the one complete scene that call
\* built and attached; no callback has run before the first render call.
C16_RenderPrecedesCallbacks ==
    /\ HoverEnabled =>
           /\ lastCall.outcome = "returned"
           /\ Len(container) = 1
           /\ container[1].tag = "svg"
           /\ ~container[1].earlier
           /\ SceneShowsLastData(container[1].scene)
    /\ lastCall.outcome = "none" => tooltip = NoTooltip

\* the callback of a primitive of the last render's scene has run
C16_Witness ==
    /\ lastCall.outcome = "returned"
    /\ tooltip.visible
    /\ ~tooltip.earlier
    /\ Len(container) = 1
    /\ tooltip.marker \in MarkersOf(container[1])

\* C17: a chart has at most one tooltip element under its id, whatever the
\* sequence of render calls and hover events; the element is created only by
\* a hover-enter that finds none, later hovers write to the same element, a
\* hover-leave creates nothing, and no render call creates or removes it.
C17_SingletonTooltip ==
    /\ [](/\ tooltip.elements <= 1
          /\ tooltip.exists <=> tooltip.elements = 1
          /\ tooltip.elements = 1 <=> tooltip.marker # 0)
    /\ [][tooltip'.elements # tooltip.elements =>
              /\ tooltip.elements = 0
              /\ tooltip'.elements = 1
              /\ tooltip'.visible
              /\ tooltip'.marker # 0
              /\ lastCall' = lastCall]_vars

\* the element outlived a hover-enter, a hover-leave and a later render call
C17_Witness ==
    /\ tooltip.elements = 1
    /\ tooltip.earlier
    /\ ~tooltip.visible
    /\ lastCall.outcome = "returned"

\* the position at which a subject is first encountered in the input
FirstEncounter(list, name) == SetMin({i \in 1..Len(list) : ObjectName(list[i]) = name})

\* C18: groupXPByProject returns its entries in descending order of total
\* amount, and entries with equal totals in the order in which their subjects
\* were first encountered in the input (transactions that carry an amount).
C18_DescendingStableTies ==
    (result.op = "groupXPByProject" /\ AmountsPresent(InputList)) =>
        LET groups == result.value
        IN  \A i, j \in 1..Len(groups) :
                i < j =>
                    /\ groups[i].xp.n >= groups[j].xp.n
                    /\ groups[i].xp = groups[j].xp =>
                           FirstEncounter(InputList, groups[i].name)
                               < FirstEncounter(InputList, groups[j].name)

\* two subjects with equal totals, the alphabetically later one met first
C18_Witness ==
    /\ result.op = "groupXPByProject"
    /\ Len(InputList) = 2
    /\ InputList[1].name = "B" /\ InputList[2].name = "A"
    /\ InputList[1].amount = Num(2) /\ InputList[2].amount = Num(2)
    /\ result.value = <<[name |-> "B", xp |-> Num(2)], [name |-> "A", xp |-> Num(2)]>>

\* every result of the list carries a number as its grade
NumericGrades(list) == \A i \in 1..Len(list) : list[i].grade.k = "num"

\* C19: for every list of results with numeric grades calculatePassFailStats
\* returns passed = the number of results with grade >= 1 and failed = the
\* number with grade < 1, so passed + failed is the number of results; an
\* absent or empty list yields passed = 0 and failed = 0.
C19_PassFailCounts ==
    result.op = "calculatePassFailStats" =>
        LET list == args.results.list
        IN  /\ (~args.results.present \/ Len(list) = 0) =>
                   result.value.passed = 0 /\ result.value.failed = 0
            /\ NumericGrades(list) =>
                   /\ result.value.passed =
                          Cardinality({i \in 1..Len(list) : list[i].grade.n >= list[i].grade.d})
                   /\ result.value.failed =
                          Cardinality({i \in 1..Len(list) : list[i].grade.n < list[i].grade.d})
                   /\ result.value.passed + result.value.failed = Len(list)

\* the grades 1, 0, 2, -1 gave two passed and two failed
C19_Witness ==
    /\ result.op = "calculatePassFailStats"
    /\ args.results = ListOf(<<[grade |-> Num(1)], [grade |-> Num(0)],
                               [grade |-> Num(2)], [grade |-> Num(-1)]>>)
    /\ result.value.passed = 2
    /\ result.value.failed = 2

(***************************************************************************)
(* Auth's token expiry monitor (src/js/auth/auth.js).  A session is the     *)
(* page that is open, the three cookies Storage keeps, and the Auth object  *)
(* of the page: whether Object.freeze has run, its expiryCheckInterval      *)
(* property (0: none or null, 1: a timer id), whether an interval timer is  *)
(* running, and the clock ticks since the timer was started or last fired.  *)
(* The scripts are classic scripts without "use strict", so an assignment   *)
(* to a property of the frozen Auth object is ignored.  A navigation        *)
(* discards the page with its timers and its Auth object.                   *)
(***************************************************************************)
CheckTicks == 4     \* clock ticks per CONFIG.TOKEN_EXPIRY_CHECK_INTERVAL

Pages == {"login.html", "profile.html"}

\* the page opened with the cookies a browser can hold: none, or the three
\* that login saved, the token still valid or expired since
OpenedSessions ==
    {[page |-> p, loaded |-> FALSE, token |-> t, userId |-> t # "missing",
      username |-> t # "missing", frozen |-> FALSE, expiryCheckInterval |-> 0,
      timer |-> FALSE, elapsed |-> 0, cause |-> "opened", error |-> ""] :
        p \in Pages, t \in {"missing", "valid", "expired"}}

\* mutant of isExpired: no token counts as expired
isExpired_Never(token) == FALSE

\* JWT.isExpired of a stored token
isExpired(token) == token = "expired"

\* JWT.isValid
isValid(token) == token \notin {"missing", "undecodable"} /\ ~isExpired(token)

Storage_clear(s) == [s EXCEPT !.token = "missing", !.userId = FALSE, !.username = FALSE]

\* Auth.isAuthenticated(): its value, and the storage it leaves
isAuthenticated(s) == isValid(s.token)
AfterIsAuthenticated(s) ==
    IF s.token # "missing" /\ ~isValid(s.token) THEN Storage_clear(s) ELSE s

stopTokenExpiryCheck(s) ==
    IF s.expiryCheckInterval # 0
    THEN [s EXCEPT !.timer = FALSE, !.expiryCheckInterval = IF s.frozen THEN @ ELSE 0]
    ELSE s

startTokenExpiryCheck(s) ==
    LET stopped == stopTokenExpiryCheck(s)
    IN  [stopped EXCEPT !.timer = TRUE, !.elapsed = 0,
                        !.expiryCheckInterval = IF stopped.frozen THEN @ ELSE 1]

\* window.location.href = page
Navigate(s, page, cause) ==
    [s EXCEPT !.page = page, !.loaded = FALSE, !.frozen = FALSE, !.expiryCheckInterval = 0,
              !.timer = FALSE, !.elapsed = 0, !.cause = cause, !.error = ""]

logout(s, cause) == Navigate(Storage_clear(stopTokenExpiryCheck(s)), "login.html", cause)

\* the end of auth.js: the monitor is started if the user is authenticated,
\* then Auth is frozen
AuthScript(s) ==
    LET checked == AfterIsAuthenticated(s)
        started == IF isAuthenticated(s) THEN startTokenExpiryCheck(checked) ELSE checked
    IN  [started EXCEPT !.frozen = TRUE]

requireAuth(s) ==
    IF ~isAuthenticated(s) THEN Navigate(AfterIsAuthenticated(s), "login.html", "requireAuth")
    ELSE [s EXCEPT !.loaded = TRUE]

redirectIfAuthenticated(s) ==
    IF isAuthenticated(s) THEN Navigate(s, "profile.html", "redirectIfAuthenticated")
    ELSE [AfterIsAuthenticated(s) EXCEPT !.loaded = TRUE]

\* the setInterval callback of startTokenExpiryCheck
expiryCheck(s) ==
    IF s.token = "missing" \/ isExpired(s.token) THEN logout(s, "expiry check")
    ELSE [s EXCEPT !.elapsed = 0]

Idle == AggIdle /\ chart = "none" /\ container = <<>> /\ lastCall = NoCall /\ tooltip = NoTooltip

InitAuth == session \in OpenedSessions /\ profile = NoProfile /\ request = NoRequest /\ Idle

\* the page's scripts run: auth.js, then the page's own script
LoadPage ==
    /\ ~session.loaded
    /\ session' = IF session.page = "profile.html" THEN requireAuth(AuthScript(session))
                  ELSE redirectIfAuthenticated(AuthScript(session))
    /\ UNCHANGED <<aggVars, chartVars, profile, request>>

\* what the signin endpoint answers: a rejected fetch, a status that is not
\* ok, or an ok response whose text holds no JWT, a JWT that cannot be
\* decoded, an expired one, one without a user id, or a good one
LoginResponses ==
    {"network error", "401", "403", "500", "404", "no token",
     "undecodable token", "expired token", "token without user id", "token"}

\* the token login extracts from the response text
ReceivedToken(response) ==
    CASE response = "undecodable token" -> "undecodable"
      [] response = "expired token" -> "expired"
      [] response \in {"token without user id", "token"} -> "valid"
      [] OTHER -> "missing"

LoginFailure(s, error) == [success |-> FALSE, error |-> error, session |-> s]

\* mutant of login: the token is stored as soon as it has the JWT format
login_SavesBeforeValidation(s, response) ==
    LET token == ReceivedToken(response)
        saved == [s EXCEPT !.token = token]
    IN  IF response = "network error"
        THEN LoginFailure(s, "Network error. Please check your connection and try again.")
        ELSE IF response = "401"
        THEN LoginFailure(s, "Invalid credentials. Please check your username/email and password.")
        ELSE IF response = "403"
        THEN LoginFailure(s, "Access forbidden. Your account may be suspended.")
        ELSE IF response = "500"
        THEN LoginFailure(s, "Server error. Please try again later.")
        ELSE IF response = "404"
        THEN LoginFailure(s, "Login failed with status: 404")
        ELSE IF token = "missing"
        THEN LoginFailure(s, "Received invalid token format from server. Try using a browser CORS extension.")
        ELSE IF ~isValid(token)
        THEN LoginFailure(saved, "Received invalid token from server.")
        ELSE IF response = "token without user id"
        THEN LoginFailure(saved, "Could not extract user ID from token.")
        ELSE [success |-> TRUE, error |-> "",
              session |-> startTokenExpiryCheck(
                              [saved EXCEPT !.userId = TRUE, !.username = TRUE])]

\* Auth.login(identifier, password): its result and the session it leaves
login(s, response) ==
    LET token == ReceivedToken(response)
    IN  IF response = "network error"
        THEN LoginFailure(s, "Network error. Please check your connection and try again.")
        ELSE IF response = "401"
        THEN LoginFailure(s, "Invalid credentials. Please check your username/email and password.")
        ELSE IF response = "403"
        THEN LoginFailure(s, "Access forbidden. Your account may be suspended.")
        ELSE IF response = "500"
        THEN LoginFailure(s, "Server error. Please try again later.")
        ELSE IF response = "404"
        THEN LoginFailure(s, "Login failed with status: 404")
        ELSE IF token = "missing"
        THEN LoginFailure(s, "Received invalid token format from server. Try using a browser CORS extension.")
        ELSE IF ~isValid(token)
        THEN LoginFailure(s, "Received invalid token from server.")
        ELSE IF response = "token without user id"
        THEN LoginFailure(s, "Could not extract user ID from token.")
        ELSE [success |-> TRUE, error |-> "",
              session |-> startTokenExpiryCheck(
                              [s EXCEPT !.token = token, !.userId = TRUE, !.username = TRUE])]

\* the login form's submit handler after a successful Auth.login: cookies
\* saved, the monitor started on the frozen Auth, then profile.html opened
Login ==
    /\ session.loaded
    /\ session.page = "login.html"
    /\ session' = Navigate(login(session, "token").session, "profile.html", "login")
    /\ UNCHANGED <<aggVars, chartVars, profile, request>>

\* the login form's submit handler after a failed Auth.login: showError
LoginFailed ==
    /\ session.loaded
    /\ session.page = "login.html"
    /\ \E response \in LoginResponses :
           LET r == login(session, response)
           IN  /\ ~r.success
               /\ session' = [r.session EXCEPT !.error = r.error]
    /\ UNCHANGED <<aggVars, chartVars, profile, request>>

\* the token's exp time passes
TokenExpires ==
    /\ session.token = "valid"
    /\ session' = [session EXCEPT !.token = "expired"]
    /\ UNCHANGED <<aggVars, chartVars, profile, request>>

\* the browser drops one of the three cookies (max-age reached, or removed by
\* the user)
CookieDropped ==
    /\ \/ /\ session.token # "missing"
          /\ session' = [session EXCEPT !.token = "missing"]
       \/ /\ session.userId
          /\ session' = [session EXCEPT !.userId = FALSE]
       \/ /\ session.username
          /\ session' = [session EXCEPT !.username = FALSE]
    /\ UNCHANGED <<aggVars, chartVars, profile, request>>

\* time passes on a page with a running interval timer; the timer fires when
\* the interval has passed
Tick ==
    /\ session.loaded
    /\ session.timer
    /\ session.elapsed < CheckTicks
    /\ session' = [session EXCEPT !.elapsed = @ + 1]
    /\ UNCHANGED <<aggVars, chartVars, profile, request>>

ExpiryCheck ==
    /\ session.loaded
    /\ session.timer
    /\ session.elapsed = CheckTicks
    /\ session' = expiryCheck(session)
    /\ UNCHANGED <<aggVars, chartVars, profile, request>>

\* GraphQL.query got status 401 and calls Auth.logout()
Unauthorized ==
    /\ session.loaded
    /\ session.page = "profile.html"
    /\ session' = logout(session, "401")
    /\ UNCHANGED <<aggVars, chartVars, profile, request>>

NextAuth ==
    \/ LoadPage
    \/ Login
    \/ LoginFailed
    \/ TokenExpires
    \/ CookieDropped
    \/ Tick
    \/ ExpiryCheck
    \/ Unauthorized

\* time passes and a due interval timer fires while the page is open
SpecAuth == InitAuth /\ [][NextAuth]_vars /\ WF_vars(Tick) /\ WF_vars(ExpiryCheck)

\* a page on which the expiry monitor was started is open
Monitored == session.loaded /\ session.timer

TokenExpiredOrMissing == session.token \in {"missing", "expired"}

LoggedOut ==
    /\ session.page = "login.html"
    /\ session.token = "missing"
    /\ ~session.userId
    /\ ~session.username

\* the step is the timer's callback: the interval has passed and the timer
\* is restarted or the page is left
CheckStep ==
    /\ Monitored
    /\ session.elapsed = CheckTicks
    /\ session'.elapsed # session.elapsed \/ session'.page # session.page

\* C20: while a page on which the expiry monitor was started is open, the
\* monitor's timer keeps running; the first periodic check that finds the
\* stored token expired or missing logs the user out (token, user id and
\* username cleared, login.html opened), and a token that is expired or
\* missing on such a page always leads to that logout.
C20_AutoLogoutOnExpiry ==
    /\ []((session.loaded /\ session.page = "profile.html") => session.timer)
    /\ [][(CheckStep /\ TokenExpiredOrMissing) => LoggedOut']_vars
    /\ (Monitored /\ TokenExpiredOrMissing) ~> LoggedOut

\* the periodic check found the token expired or missing and logged out
C20_Witness ==
    /\ session.cause = "expiry check"
    /\ LoggedOut
    /\ ~session.loaded

(***************************************************************************)
(* The profile page (src/unnamed/part_001).  handleEventSelection sets      *)
(* currentEvent and calls loadStatistics and loadGraphs without awaiting    *)
(* them; each reads getEventQueries(currentEvent, userId) before its first  *)
(* await and then awaits its queries one after the other.  A load in flight *)
(* is the event it was started for and the query it is waiting for; the     *)
(* responses of different loads arrive in any order.  shown is the event    *)
(* whose data each surface displays ("blank": a cleared container).         *)
(***************************************************************************)
MaxSelections == 2     \* event cards clicked in a behaviour

EventTypes == {"all", "piscine-go", "piscine-js"}

GraphOrder == <<"XPTimeline", "AuditRatio", "ProjectStats", "XPByProject">>

Surfaces == {"cards", "XPTimeline", "AuditRatio", "ProjectStats", "XPByProject"}

Load(fn, event) == [fn |-> fn, event |-> event, pc |-> 1]

NoLoad == [fn |-> "none", event |-> "none", fetched |-> {}, threw |-> FALSE]

\* the transaction lists a response to queries.xpTransactions carries
ResponseTransactions ==
    {ListOf(<<>>),
     ListOf(<<[createdAt |-> 1, amount |-> Num(2), name |-> "A"]>>),
     ListOf(<<[createdAt |-> 1, amount |-> Num(2), name |-> "A"],
              [createdAt |-> 2, amount |-> Num(2), name |-> "A"]>>)}

\* whether chart.render(data) of a successful response throws
RenderThrows(graph, transactions) ==
    IF graph = "XPTimeline" THEN XPTimeline_render(<<>>, transactions, FALSE).threw
    ELSE IF graph = "XPByProject"
         THEN \E outcome \in XPByProject_render(<<>>, transactions) : outcome.threw
    ELSE FALSE

RemoveAt(loads, i) == SubSeq(loads, 1, i - 1) \o SubSeq(loads, i + 1, Len(loads))

\* the page after loadProfile has shown the profile: event "all" everywhere
LoadedProfile ==
    [currentEvent |-> "all",
     selections   |-> 0,
     loads        |-> <<>>,
     shown        |-> [s \in Surfaces |-> "all"],
     failed       |-> FALSE,
     lastFinished |-> NoLoad]

InitPage ==
    /\ profile = LoadedProfile
    /\ session = NoSession
    /\ request = NoRequest
    /\ Idle

\* a click on an event card: handleEventSelection(eventType)
SelectEvent ==
    /\ profile.selections < MaxSelections
    /\ \E eventType \in EventTypes :
           profile' = [profile EXCEPT
                          !.currentEvent = eventType,
                          !.selections = @ + 1,
                          !.loads = @ \o <<Load("loadStatistics", eventType),
                                           Load("loadGraphs", eventType)>>]
    /\ UNCHANGED <<aggVars, chartVars, session, request>>

\* a query of a loadStatistics call resolves: the next query is sent, or after
\* the third one StatsCard.renderAll shows the statistics
StatisticsResponse ==
    /\ \E i \in 1..Len(profile.loads) :
           LET load == profile.loads[i]
           IN  /\ load.fn = "loadStatistics"
               /\ profile' =
                      IF load.pc < 3
                      THEN [profile EXCEPT !.loads[i].pc = @ + 1]
                      ELSE [profile EXCEPT
                               !.loads = RemoveAt(@, i),
                               !.shown["cards"] = load.event,
                               !.lastFinished = [fn |-> load.fn, event |-> load.event,
                                                 fetched |-> {}, threw |-> FALSE]]
    /\ UNCHANGED <<aggVars, chartVars, session, request>>

\* a query of a loadGraphs call resolves: on success the chart is rendered, an
\* exception of render ends the load in its catch block, otherwise the next
\* chart's query is sent
GraphsResponse ==
    /\ \E i \in 1..Len(profile.loads) :
       \E success \in BOOLEAN :
       \E transactions \in ResponseTransactions :
           LET load    == profile.loads[i]
               graph   == GraphOrder[load.pc]
               fetched == {GraphOrder[c] : c \in 1..load.pc}
               threw   == success /\ RenderThrows(graph, transactions)
               shown   == IF threw THEN [profile.shown EXCEPT ![graph] = "blank"]
                          ELSE IF success THEN [profile.shown EXCEPT ![graph] = load.event]
                          ELSE profile.shown
               ended   == [fn |-> load.fn, event |-> load.event,
                           fetched |-> fetched, threw |-> threw]
           IN  /\ load.fn = "loadGraphs"
               /\ profile' =
                      IF threw \/ load.pc = Len(GraphOrder)
                      THEN [profile EXCEPT
                               !.loads = RemoveAt(@, i),
                               !.shown = shown,
                               !.failed = @ \/ ~success \/ threw,
                               !.lastFinished = ended]
                      ELSE [profile EXCEPT
                               !.loads[i].pc = @ + 1,
                               !.shown = shown,
                               !.failed = @ \/ ~success]
    /\ UNCHANGED <<aggVars, chartVars, session, request>>

NextPage ==
    \/ SelectEvent
    \/ StatisticsResponse
    \/ GraphsResponse

SpecPage == InitPage /\ [][NextPage]_vars

\* C21 (as claimed): once every query in flight has resolved (none failed, no
\* render threw), each chart and the statistics cards show the data of the
\* currently selected event, whatever the order of the responses.
C21_NoStaleResponseShown ==
    (profile.loads = <<>> /\ ~profile.failed) =>
        \A s \in Surfaces : profile.shown[s] = profile.currentEvent

MaxRetries == 3     \* largest maxRetries passed to queryWithRetry

\* what a fetch of the endpoint meets: a rejected fetch, a status that is
\* not ok, or an ok response whose body carries errors or data
Responses ==
    {"network error", "401", "403", "500", "404",
     "errors", "errors without message", "data"}

NotAuthenticatedMessage == "Not authenticated. Please login first."
GenericFailureMessage == "Query failed after multiple attempts"

\* the message of the error thrown in query's try block for a response
ErrorMessage(response) ==
    CASE response = "network error" -> "Failed to fetch"
      [] response = "401" -> "Session expired. Please login again."
      [] response = "403" ->
             "Access forbidden. You do not have permission to access this resource."
      [] response = "500" -> "Server error. Please try again later."
      [] response = "404" -> "HTTP error! status: 404"
      [] response = "errors" -> "field not found"
      [] response = "errors without message" -> "GraphQL query failed"
      [] OTHER -> ""

\* error.includes('authenticated'), over the messages above
includesAuthenticated(message) == message = NotAuthenticatedMessage

\* the try block of query: whether it threw and with which message, whether
\* fetch was called, and the session it leaves
TryQuery(s, response) ==
    IF ~isAuthenticated(s)
    THEN [threw |-> TRUE, message |-> NotAuthenticatedMessage, fetched |-> FALSE,
          session |-> AfterIsAuthenticated(s)]
    ELSE [threw   |-> response # "data",
          message |-> ErrorMessage(response),
          fetched |-> TRUE,
          session |-> IF response = "401" THEN logout(s, "401") ELSE s]

\* mutant of query: an error thrown in the try block leaves the function
query_Rethrows(s, response) ==
    LET try == TryQuery(s, response)
    IN  [rejected      |-> try.threw,
         message       |-> try.message,
         result        |-> [success |-> ~try.threw, error |-> ""],
         fetched       |-> try.fetched,
         authenticated |-> isAuthenticated(s),
         response      |-> response,
         session       |-> try.session]

\* GraphQL.query: the promise it returns (rejected with message, or resolved
\* to result), with what the call did
query(s, response) ==
    LET try == TryQuery(s, response)
    IN  [rejected      |-> FALSE,
         message       |-> "",
         result        |-> IF try.threw THEN [success |-> FALSE, error |-> try.message]
                           ELSE [success |-> TRUE, error |-> ""],
         fetched       |-> try.fetched,
         authenticated |-> isAuthenticated(s),
         response      |-> response,
         session       |-> try.session]

\* queryWithRetry's return after the loop
ReturnFailure(req) ==
    [req EXCEPT !.state = "returned",
                !.result = [success |-> FALSE,
                            error |-> IF req.lastError # "" THEN req.lastError
                                      ELSE GenericFailureMessage]]

\* mutant of LoopTest: one attempt more than maxRetries
LoopTest_OneMore(req) ==
    IF req.attempt <= req.maxRetries + 1 THEN req ELSE ReturnFailure(req)

\* the loop's test attempt <= maxRetries
LoopTest(req) ==
    IF req.attempt <= req.maxRetries THEN req ELSE ReturnFailure(req)

\* queryWithRetry from the settling of attempt's query call to its next await
\* or its return
AfterQuery(req, q) ==
    LET called == [req EXCEPT !.calls = Append(@, q)]
    IN  IF q.rejected
        THEN LoopTest([called EXCEPT
                          !.lastError = q.message,
                          !.slept = IF req.attempt < req.maxRetries
                                    THEN Append(@, [after |-> req.attempt,
                                                    ms |-> (2 ^ req.attempt) * 100])
                                    ELSE @,
                          !.attempt = @ + 1])
        ELSE IF q.result.success
        THEN [called EXCEPT !.state = "returned", !.result = q.result]
        ELSE IF q.result.error # "" /\ includesAuthenticated(q.result.error)
        THEN ReturnFailure([called EXCEPT !.lastError = q.result.error])
        ELSE LoopTest([called EXCEPT !.lastError = q.result.error, !.attempt = @ + 1])

\* the profile page loaded with a valid token
InitQuery ==
    /\ session = requireAuth(AuthScript(
                     [page |-> "profile.html", loaded |-> FALSE, token |-> "valid",
                      userId |-> TRUE, username |-> TRUE, frozen |-> FALSE,
                      expiryCheckInterval |-> 0, timer |-> FALSE, elapsed |-> 0,
                      cause |-> "opened", error |-> ""]))
    /\ request = NoRequest
    /\ profile = NoProfile
    /\ Idle

\* GraphQL.queryWithRetry(query, variables, maxRetries) up to its first await
QueryWithRetry ==
    /\ request = NoRequest
    /\ \E maxRetries \in 0..MaxRetries :
           request' = LoopTest([state |-> "awaiting", maxRetries |-> maxRetries,
                                attempt |-> 1, lastError |-> "", calls |-> <<>>,
                                slept |-> <<>>,
                                result |-> [success |-> FALSE, error |-> ""]])
    /\ UNCHANGED <<aggVars, chartVars, session, profile>>

\* the query call of the current attempt settles
QueryAttempt ==
    /\ request # NoRequest
    /\ request.state = "awaiting"
    /\ \E response \in Responses :
           LET q == query(session, response)
           IN  /\ request' = AfterQuery(request, q)
               /\ session' = q.session
    /\ UNCHANGED <<aggVars, chartVars, profile>>

NextQuery ==
    \/ QueryWithRetry
    \/ QueryAttempt
    \/ TokenExpires

\* every fetch settles: the browser resolves or rejects it
SpecQuery == InitQuery /\ [][NextQuery]_vars /\ WF_vars(QueryAttempt)

\* the attempts of the request that failed on authentication
AuthenticationFailures ==
    {k \in 1..Len(request.calls) :
        ~request.calls[k].authenticated \/ request.calls[k].response = "401"}

\* C23 (as claimed): once an attempt of queryWithRetry fails because the user
\* is not authenticated or because the server answered 401, that attempt is
\* the last one and its failure is what queryWithRetry returns.
C23_NoRetryAfterAuthenticationError ==
    request # NoRequest =>
        \A k \in AuthenticationFailures :
            /\ k = Len(request.calls)
            /\ request.state = "returned"
            /\ request.result = request.calls[k].result

\* the last query call of the request succeeded
LastSucceeded ==
    /\ request.calls # <<>>
    /\ request.calls[Len(request.calls)].result.success

\* C24: for every maxRetries >= 0 queryWithRetry returns after at most
\* maxRetries calls of query; it makes no call after a successful one and
\* returns that result; otherwise it returns success false with the last
\* call's error, or with the generic message when it made no call.
C24_AtMostMaxRetriesCalls ==
    /\ [](request # NoRequest =>
            /\ Len(request.calls) <= request.maxRetries
            /\ request.state = "awaiting" => Len(request.calls) < request.maxRetries
            /\ \A k \in 1..(Len(request.calls) - 1) : ~request.calls[k].result.success
            /\ LastSucceeded =>
                   /\ request.state = "returned"
                   /\ request.result = request.calls[Len(request.calls)].result
            /\ (request.state = "returned" /\ ~LastSucceeded) =>
                   /\ ~request.result.success
                   /\ request.result.error =
                          IF request.calls = <<>> THEN GenericFailureMessage
                          ELSE request.calls[Len(request.calls)].result.error)
    /\ (request.state = "awaiting") ~> (request.state = "returned")

\* every one of the allowed attempts failed and the last error was returned
C24_Witness ==
    /\ request # NoRequest
    /\ request.state = "returned"
    /\ request.maxRetries = MaxRetries
    /\ Len(request.calls) = MaxRetries
    /\ request.result = [success |-> FALSE, error |-> "Server error. Please try again later."]

\* C25: every call of query resolves, never rejects, to an object whose
\* success flag is a boolean; success is true only when the user was
\* authenticated, the response was ok and its body carried no errors; an
\* unauthenticated call sends no request.
C25_QueryNeverRejects ==
    request # NoRequest =>
        \A k \in 1..Len(request.calls) :
            LET q == request.calls[k]
            IN  /\ ~q.rejected
                /\ q.result.success \in BOOLEAN
                /\ q.result.success =>
                       /\ q.authenticated
                       /\ q.response \notin {"network error", "401", "403", "500", "404"}
                       /\ q.response \notin {"errors", "errors without message"}
                /\ ~q.authenticated => ~q.fetched /\ ~q.result.success

\* a call answered with GraphQL errors, then one made after the token expired
C25_Witness ==
    /\ request # NoRequest
    /\ Len(request.calls) = 2
    /\ request.calls[1].response = "errors"
    /\ request.calls[1].fetched
    /\ request.calls[1].result = [success |-> FALSE, error |-> "field not found"]
    /\ ~request.calls[2].authenticated
    /\ ~request.calls[2].fetched
    /\ request.calls[2].result = [success |-> FALSE, error |-> NotAuthenticatedMessage]

\* C27 (as claimed): when attempt k of queryWithRetry has failed and the loop
\* has gone on to attempt k + 1, it has slept 2^k * 100 ms in between.
C27_ExponentialBackoff ==
    request # NoRequest =>
        \A k \in 1..Len(request.calls) :
            (k < request.maxRetries /\ request.attempt > k) =>
                \E i \in 1..Len(request.slept) :
                    request.slept[i] = [after |-> k, ms |-> (2 ^ k) * 100]

\* what login may not touch when it fails
StoredAuth(s) ==
    [token |-> s.token, userId |-> s.userId, username |-> s.username,
     timer |-> s.timer, expiryCheckInterval |-> s.expiryCheckInterval]

\* the step shows the error of a failed login on the login page
LoginFailedStep ==
    /\ session.page = "login.html"
    /\ session'.page = "login.html"
    /\ session'.error # ""
    /\ session'.error # session.error

\* C26: on the login page, a login that returns success false (status not
\* ok, no JWT in the response, undecodable or expired token, token without a
\* user id, network error) leaves the stored token, user id and username as
\* they were and starts no timer; a login succeeds only with a valid token
\* that carries a user id, and then token, user id and username are all
\* stored.
C26_FailedLoginChangesNothing ==
    /\ []((session.loaded /\ session.page = "login.html") =>
            \A response \in LoginResponses :
                LET r == login(session, response)
                IN  /\ ~r.success => StoredAuth(r.session) = StoredAuth(session)
                    /\ r.success <=> response = "token"
                    /\ r.success =>
                           /\ r.session.token = "valid"
                           /\ r.session.userId
                           /\ r.session.username)
    /\ [][LoginFailedStep => StoredAuth(session') = StoredAuth(session)]_vars

\* the server sent an expired token: the error is shown, nothing is stored
\* and no timer runs
C26_Witness ==
    /\ session.page = "login.html"
    /\ session.error = "Received invalid token from server."
    /\ session.token = "missing"
    /\ ~session.userId
    /\ ~session.username
    /\ ~session.timer

\* C28 (as claimed): whenever the tooltip is visible, the primitive whose
\* data it shows is a primitive of the scene now in the container, not one
\* that an earlier render discarded.
C28_VisibleTooltipOfCurrentScene ==
    tooltip.visible =>
        /\ ~tooltip.earlier
        /\ \E c \in 1..Len(container) : tooltip.marker \in MarkersOf(container[c])

====
